---- MODULE Spec2Model ----
(***************************************************************************)
(* A model of the text segmentation pipeline (make_wide_table.py) and of   *)
(* the batch insert loop (run_all.py / insert_csv.py).                     *)
(*                                                                         *)
(* Text is a sequence of characters, each character a one-character        *)
(* string.  The tokenizer is a greedy longest-match subword tokenizer over *)
(* a small vocabulary: encode maps a text to a sequence of token ids,      *)
(* decode concatenates the character strings of the ids.                   *)
(***************************************************************************)
EXTENDS Integers, Sequences, FiniteSets, TLC

VARIABLES
    \* ---- a single call of split_by_tokens / split_into_sentences ----
    text,        \* the text argument
    limit,       \* the limit argument of split_by_tokens
    fn_pc,       \* "ready" | "split_returned" | "split_raised" | "sent_returned"
    parts,       \* local `parts` of split_by_tokens (token slices)
    slices,      \* value returned by split_by_tokens
    spans,       \* value returned by split_into_sentences
    \* ---- the row generators from_raw_text / from_chunk_csv ----
    mode,        \* "raw": from_raw_text, "csv": from_chunk_csv, "none"
    full_text,   \* from_raw_text: the document
    main_limit,  \* from_raw_text: tokens per chunk
    sub_limit,   \* tokens per subchunk
    columns,     \* from_chunk_csv: df.columns
    df,          \* from_chunk_csv: the rows df.iterrows() has produced
    gen_pc,      \* "start" | "chunk_loop" | "sub_loop" | "sent_loop" |
                 \* "done" | "error" ; "idle" when no generator runs
    main_chunks, \* from_raw_text: main_chunks
    chunk_id,    \* loop variables of the three nested loops
    chunk_text,
    subchunks,
    sub_id,
    sub_text,
    sentences,
    sent_id,
    out,         \* the rows yielded so far, in order
    \* ---- insert_csv of run_all.py ----
    csv_exists,        \* os.path.exists(csv_path)
    collection_exists, \* COLLECTION in list_collection_names(client)
    fieldnames,        \* reader.fieldnames
    batch_size,        \* batch_size
    csv_rows,          \* the data rows the reader has produced, in order
    ins_pc,            \* "start" | "loop" | "done" | "exit" | "error" ;
                       \* "idle" when insert_csv does not run
    buf,               \* buf
    total,             \* total
    calls,             \* the argument of every insert_many call, in order
    printed,           \* the totals printed, progress lines and last line
    \* ---- the script search.py ----
    sr_pc,         \* "get" | "hybrid" | "bm25" | "near_text" | "finally" |
                   \* "closed" ; "idle" when the script does not run
    queries,       \* the queries issued, in order, each with its outcome
    shown,         \* what each print_results call has listed, in order
    sr_exit,       \* how the try block was left: "none" while inside,
                   \* "normal" | "SystemExit" | "exception"
    client_closed  \* client.close() has been called

fnVars == <<text, limit, fn_pc, parts, slices, spans>>

genVars == <<mode, full_text, main_limit, sub_limit, columns, df, gen_pc,
             main_chunks, chunk_id, chunk_text, subchunks, sub_id,
             sub_text, sentences, sent_id, out>>

insVars == <<csv_exists, collection_exists, fieldnames, batch_size,
             csv_rows, ins_pc, buf, total, calls, printed>>

searchVars == <<sr_pc, queries, shown, sr_exit, client_closed>>

vars == <<fnVars, genVars, insVars, searchVars>>

--------------------------------------------------------------------------
\* Bounds of the model.

\* longest text given to split_by_tokens
MaxLen == 5
\* longest text given to split_into_sentences
MaxSentLen == 7
\* largest token limit tried
MaxLimit == 3
\* most negative token limit tried is -MaxNegLimit
MaxNegLimit == 2
\* longest document given to from_raw_text
MaxDocLen == 5
\* most rows of the data frame given to from_chunk_csv
MaxDfRows == 2
\* longest chunk_text cell of the data frame
MaxCellLen == 1
\* most data rows of the CSV file given to insert_csv
MaxCsvRows == 5
\* largest batch size tried
MaxBatch == 3
\* most objects a query of search.py returns
MaxObjects == 2

--------------------------------------------------------------------------
\* Characters and texts.

SP == " "
TAB == "\t"
NL == "\n"

\* the characters input texts are drawn from: a letter, a sentence
\* terminator, and the three kinds of whitespace the code distinguishes
Alphabet == {"a", ".", SP, TAB, NL}

\* the characters documents are drawn from: for the generators a tab is
\* one more character that split_into_sentences turns into a space
DocAlphabet == {"a", ".", SP, NL}

\* the characters chunk_text cells are drawn from
CellAlphabet == {"a", SP}

TextsOver(alphabet, n) == UNION {[1..k -> alphabet] : k \in 0..n}

TextsUpTo(n) == TextsOver(Alphabet, n)

Min(a, b) == IF a <= b THEN a ELSE b

\* str.isspace for one character; also the regular expression class \s
IsSpace(c) == c \in {SP, TAB, NL}

\* the characters of the class [\.\?\!;:...] of SENT_SPLIT_RE (the two
\* Myanmar marks of the source class are left out of the alphabet)
Terminators == {".", "?", "!", ";", ":"}

--------------------------------------------------------------------------
\* The tokenizer: ENC, enc, dec.

\* ENC: the vocabulary; a token id is an index into it.  Besides every
\* single character it holds merged tokens, among them whitespace-only
\* ones and a space-prefixed word, as the cl100k_base vocabulary does.
Vocab ==
    << <<"a">>, <<".">>, <<SP>>, <<TAB>>, <<NL>>, <<"n">>,
       <<SP, "a">>, <<"a", "a">>, <<NL, NL>>, <<SP, SP>> >>

\* token `tok` occurs in `t` at (1-based) position i
TokenAt(tok, t, i) ==
    /\ i + Len(tok) - 1 <= Len(t)
    /\ \A k \in 1..Len(tok) : t[i + k - 1] = tok[k]

\* the id of the longest vocabulary entry occurring at position i
LongestAt(t, i) ==
    CHOOSE v \in 1..Len(Vocab) :
        /\ TokenAt(Vocab[v], t, i)
        /\ \A w \in 1..Len(Vocab) :
              TokenAt(Vocab[w], t, i) => Len(Vocab[w]) <= Len(Vocab[v])

RECURSIVE encFrom(_, _)
encFrom(t, i) ==
    IF i > Len(t) THEN <<>>
    ELSE LET v == LongestAt(t, i)
         IN <<v>> \o encFrom(t, i + Len(Vocab[v]))

\* enc(text): ENC.encode(text or "")
enc(t) == encFrom(t, 1)

RECURSIVE dec(_)
\* dec(tokens): ENC.decode(tokens)
dec(tokens) ==
    IF tokens = <<>> THEN <<>>
    ELSE Vocab[Head(tokens)] \o dec(Tail(tokens))

--------------------------------------------------------------------------
\* split_by_tokens.

RECURSIVE range(_, _, _)
\* Python's range(start, stop, step) for step # 0, as the sequence of its
\* values
range(start, stop, step) ==
    IF step > 0
    THEN IF start >= stop THEN <<>>
         ELSE <<start>> \o range(start + step, stop, step)
    ELSE IF start <= stop THEN <<>>
         ELSE <<start>> \o range(start + step, stop, step)

\* Python's s[i:j] for 0 <= i <= j: the end is clamped to len(s)
Slice(s, i, j) == SubSeq(s, i + 1, Min(j, Len(s)))

\* range(0, len(toks), limit) raises ValueError when limit = 0
split_by_tokens_raises(lim) == lim = 0

\* token_parts with every slice one token short: toks[i:i+limit-1]
token_parts_short(t, lim) ==
    LET toks == enc(t)
        starts == range(0, Len(toks), lim)
    IN [k \in 1..Len(starts) |->
           Slice(toks, starts[k], starts[k] + lim - 1)]

\* parts = [toks[i:i+limit] for i in range(0, len(toks), limit)]
token_parts(t, lim) ==
    LET toks == enc(t)
        starts == range(0, Len(toks), lim)
    IN [k \in 1..Len(starts) |-> Slice(toks, starts[k], starts[k] + lim)]

\* return [dec(p) for p in parts]
decode_parts(ps) == [k \in 1..Len(ps) |-> dec(ps[k])]

split_by_tokens(t, lim) == decode_parts(token_parts(t, lim))

--------------------------------------------------------------------------
\* split_into_sentences.

RECURSIVE lstrip(_)
lstrip(t) == IF t # <<>> /\ IsSpace(Head(t)) THEN lstrip(Tail(t)) ELSE t

RECURSIVE rstrip(_)
rstrip(t) ==
    IF t # <<>> /\ IsSpace(t[Len(t)])
    THEN rstrip(SubSeq(t, 1, Len(t) - 1))
    ELSE t

\* str.strip()
strip(t) == rstrip(lstrip(t))

RECURSIVE RunLen(_, _, _)
\* the length of the longest run of characters of class cls that starts
\* at position i of t
RunLen(t, i, cls) ==
    IF i <= Len(t) /\ t[i] \in cls THEN 1 + RunLen(t, i + 1, cls) ELSE 0

RECURSIVE collapse(_)
\* re.sub(r'[ \t]+', ' ', t)
collapse(t) ==
    IF t = <<>> THEN <<>>
    ELSE LET n == RunLen(t, 1, {SP, TAB})
         IN IF n > 0
            THEN <<SP>> \o collapse(SubSeq(t, n + 1, Len(t)))
            ELSE <<Head(t)>> \o collapse(Tail(t))

\* SENT_SPLIT_RE without its lookbehind: any whitespace run separates
SENT_SPLIT_RE_no_lookbehind(t, i) == RunLen(t, i, {SP, TAB, NL})

\* SENT_SPLIT_RE = (?<=[\.\?\!;:...])\s+|\n{2,} : the length of its match
\* at position i of t, 0 when it does not match there.  The first
\* alternative is tried first; both are greedy.
SENT_SPLIT_RE(t, i) ==
    LET afterTerminator ==
            IF i > 1 /\ t[i - 1] \in Terminators
            THEN RunLen(t, i, {SP, TAB, NL}) ELSE 0
        newlines == RunLen(t, i, {NL})
    IN IF afterTerminator >= 1 THEN afterTerminator
       ELSE IF newlines >= 2 THEN newlines
       ELSE 0

RECURSIVE re_split(_, _, _)
\* re.split(SENT_SPLIT_RE, t): the pieces of t between the successive
\* leftmost matches, scanning from position i with piece cur open
re_split(t, i, cur) ==
    IF i > Len(t) THEN <<cur>>
    ELSE LET m == SENT_SPLIT_RE(t, i)
         IN IF m > 0
            THEN <<cur>> \o re_split(t, i + m, <<>>)
            ELSE re_split(t, i + 1, Append(cur, t[i]))

\* strip_nonempty without the strip: [p for p in parts if p]
strip_nonempty_unstripped(ps) == SelectSeq(ps, LAMBDA p : p # <<>>)

\* [p.strip() for p in parts if p and p.strip()]
strip_nonempty(ps) ==
    LET kept == SelectSeq(ps, LAMBDA p : p # <<>> /\ strip(p) # <<>>)
    IN [k \in 1..Len(kept) |-> strip(kept[k])]

split_into_sentences(t0) ==
    LET t == strip(t0)
    IN IF t = <<>> THEN <<>>
       ELSE strip_nonempty(re_split(collapse(t), 1, <<>>))

--------------------------------------------------------------------------
\* A single call of split_by_tokens, or of split_into_sentences, on an
\* arbitrary argument.

IdleGen ==
    /\ mode = "none"
    /\ full_text = <<>>
    /\ main_limit = 1
    /\ sub_limit = 1
    /\ columns = {}
    /\ df = <<>>
    /\ gen_pc = "idle"
    /\ main_chunks = <<>>
    /\ chunk_id = 0
    /\ chunk_text = <<>>
    /\ subchunks = <<>>
    /\ sub_id = 0
    /\ sub_text = <<>>
    /\ sentences = <<>>
    /\ sent_id = 0
    /\ out = <<>>

IdleSearch ==
    /\ sr_pc = "idle"
    /\ queries = <<>>
    /\ shown = <<>>
    /\ sr_exit = "none"
    /\ client_closed = FALSE

IdleIns ==
    /\ csv_exists = FALSE
    /\ collection_exists = FALSE
    /\ fieldnames = {}
    /\ batch_size = 1
    /\ csv_rows = <<>>
    /\ ins_pc = "idle"
    /\ buf = <<>>
    /\ total = 0
    /\ calls = <<>>
    /\ printed = <<>>

IdleFn ==
    /\ text = <<>>
    /\ limit = 1
    /\ fn_pc = "idle"
    /\ parts = <<>>
    /\ slices = <<>>
    /\ spans = <<>>

InitTok ==
    /\ text \in TextsUpTo(MaxLen)
    /\ limit \in (0 - MaxNegLimit)..MaxLimit
    /\ fn_pc = "ready"
    /\ parts = <<>>
    /\ slices = <<>>
    /\ spans = <<>>
    /\ IdleGen
    /\ IdleIns
    /\ IdleSearch

InitSent ==
    /\ text \in TextsUpTo(MaxSentLen)
    /\ limit = 1
    /\ fn_pc = "ready"
    /\ parts = <<>>
    /\ slices = <<>>
    /\ spans = <<>>
    /\ IdleGen
    /\ IdleIns
    /\ IdleSearch

\* split_by_tokens(text, limit) returns
SplitByTokensReturn ==
    /\ fn_pc = "ready"
    /\ ~split_by_tokens_raises(limit)
    /\ parts' = token_parts(text, limit)
    /\ slices' = decode_parts(parts')
    /\ fn_pc' = "split_returned"
    /\ UNCHANGED <<text, limit, spans>>
    /\ UNCHANGED <<genVars, insVars, searchVars>>

\* split_by_tokens(text, limit) raises ValueError out of range()
SplitByTokensRaise ==
    /\ fn_pc = "ready"
    /\ split_by_tokens_raises(limit)
    /\ fn_pc' = "split_raised"
    /\ UNCHANGED <<text, limit, parts, slices, spans>>
    /\ UNCHANGED <<genVars, insVars, searchVars>>

\* split_into_sentences(text) returns
SplitIntoSentences ==
    /\ fn_pc = "ready"
    /\ spans' = split_into_sentences(text)
    /\ fn_pc' = "sent_returned"
    /\ UNCHANGED <<text, limit, parts, slices>>
    /\ UNCHANGED <<genVars, insVars, searchVars>>

NextTok == SplitByTokensReturn \/ SplitByTokensRaise

SpecTok == InitTok /\ [][NextTok]_vars

NextSent == SplitIntoSentences

SpecSent == InitSent /\ [][NextSent]_vars

--------------------------------------------------------------------------
\* The cells of the data frame given to from_chunk_csv, and the Python
\* conversions int() and str() applied to them.

Digits == <<"0", "1", "2", "3", "4", "5", "6", "7", "8", "9">>

IsDigit(c) == \E d \in 1..Len(Digits) : Digits[d] = c

DigitValue(c) == (CHOOSE d \in 1..Len(Digits) : Digits[d] = c) - 1

RECURSIVE DecimalValue(_)
\* the number a non-empty string of digits denotes
DecimalValue(ds) ==
    IF ds = <<>> THEN 0
    ELSE DecimalValue(SubSeq(ds, 1, Len(ds) - 1)) * 10
         + DigitValue(ds[Len(ds)])

\* int(s) for a string s accepts surrounding whitespace around digits
IsIntLiteral(cs) ==
    /\ strip(cs) # <<>>
    /\ \A k \in 1..Len(strip(cs)) : IsDigit(strip(cs)[k])

IntCell(n) == [kind |-> "int", v |-> n]
\* a float64 cell, held in tenths: FloatCell(15) is 1.5
FloatCell(t) == [kind |-> "float", tenths |-> t]
NaNCell == [kind |-> "nan"]
StrCell(cs) == [kind |-> "str", s |-> cs]

\* int(x) raises ValueError: NaN, or a string that is no integer literal
py_int_raises(x) ==
    \/ x.kind = "nan"
    \/ x.kind = "str" /\ ~IsIntLiteral(x.s)

\* int(x) of a float truncates toward zero, keeping the fraction's cells
py_int(x) ==
    CASE x.kind = "int" -> x.v
      [] x.kind = "float" ->
            IF x.tenths >= 0 THEN x.tenths \div 10
            ELSE 0 - ((0 - x.tenths) \div 10)
      [] x.kind = "str" -> DecimalValue(strip(x.s))

\* str(x or ""): NaN is truthy and prints as "nan"
py_str_or_empty(x) ==
    CASE x.kind = "nan" -> <<"n", "a", "n">>
      [] x.kind = "str" -> x.s

\* c.lower() of a column name
lower(c) == IF c = "Chunk_ID" THEN "chunk_id" ELSE c

\* the values a chunk_id cell is drawn from
IdCells ==
    {IntCell(1), IntCell(0), StrCell(<<"x">>), FloatCell(15), NaNCell}

\* the values a chunk_text cell is drawn from
TextCells ==
    {StrCell(t) : t \in TextsOver(CellAlphabet, MaxCellLen)} \cup {NaNCell}

\* the column names a data frame may carry
ColumnNames == {"Chunk_ID", "chunk_text"}

--------------------------------------------------------------------------
\* from_raw_text and from_chunk_csv, one step per loop iteration.

\* the six-field tuple with subchunk_id and sentence_id in each other's
\* place
Row_swapped(cid, ctext, sid, stext, kid, ktext) ==
    [chunk_id |-> cid, chunk_text |-> ctext,
     subchunk_id |-> kid, subchunk_text |-> stext,
     sentence_id |-> sid, sentence_text |-> ktext]

\* the six-field tuple with the two inner ids counted from 0
Row_zero_based(cid, ctext, sid, stext, kid, ktext) ==
    [chunk_id |-> cid, chunk_text |-> ctext,
     subchunk_id |-> sid - 1, subchunk_text |-> stext,
     sentence_id |-> kid - 1, sentence_text |-> ktext]

\* the six-field tuple a generator yields
Row(cid, ctext, sid, stext, kid, ktext) ==
    [chunk_id |-> cid, chunk_text |-> ctext,
     subchunk_id |-> sid, subchunk_text |-> stext,
     sentence_id |-> kid, sentence_text |-> ktext]

\* the sentences without the fallback: split_into_sentences(sub_text)
sentences_no_fallback(stext) == split_into_sentences(stext)

\* the fallback with the subchunk text trimmed: [sub_text.strip()]
sentences_or_stripped(stext) ==
    IF split_into_sentences(stext) = <<>> THEN <<strip(stext)>>
    ELSE split_into_sentences(stext)

\* sentences = split_into_sentences(sub_text) or [sub_text]
sentences_or_fallback(stext) ==
    IF split_into_sentences(stext) = <<>> THEN <<stext>>
    ELSE split_into_sentences(stext)

\* "chunk_id" not in cols or "chunk_text" not in cols
columns_missing(cs) ==
    LET cols == {lower(c) : c \in cs}
    IN "chunk_id" \notin cols \/ "chunk_text" \notin cols

InitGen ==
    /\ IdleFn
    /\ IdleIns
    /\ IdleSearch
    /\ mode \in {"raw", "csv"}
    /\ IF mode = "raw"
       THEN /\ full_text \in TextsOver(DocAlphabet, MaxDocLen)
            /\ main_limit \in 1..MaxLimit
            /\ columns = {}
       ELSE /\ full_text = <<>>
            /\ main_limit = 1
            /\ columns \in SUBSET ColumnNames
    /\ sub_limit \in 1..MaxLimit
    /\ df = <<>>
    /\ gen_pc = "start"
    /\ main_chunks = <<>>
    /\ chunk_id = 0
    /\ chunk_text = <<>>
    /\ subchunks = <<>>
    /\ sub_id = 0
    /\ sub_text = <<>>
    /\ sentences = <<>>
    /\ sent_id = 0
    /\ out = <<>>

\* from_raw_text: main_chunks = split_by_tokens(full_text, main_limit)
StartRaw ==
    /\ gen_pc = "start"
    /\ mode = "raw"
    /\ main_chunks' = split_by_tokens(full_text, main_limit)
    /\ gen_pc' = "chunk_loop"
    /\ UNCHANGED <<mode, full_text, main_limit, sub_limit, columns, df,
                   chunk_id, chunk_text, subchunks, sub_id, sub_text,
                   sentences, sent_id, out>>
    /\ UNCHANGED <<fnVars, insVars, searchVars>>

\* from_chunk_csv: a required column is missing, raise ValueError
StartCsvRaise ==
    /\ gen_pc = "start"
    /\ mode = "csv"
    /\ columns_missing(columns)
    /\ gen_pc' = "error"
    /\ UNCHANGED <<mode, full_text, main_limit, sub_limit, columns, df,
                   main_chunks, chunk_id, chunk_text, subchunks, sub_id,
                   sub_text, sentences, sent_id, out>>
    /\ UNCHANGED <<fnVars, insVars, searchVars>>

\* from_chunk_csv: both columns are there, enter the loop over the rows
StartCsv ==
    /\ gen_pc = "start"
    /\ mode = "csv"
    /\ ~columns_missing(columns)
    /\ gen_pc' = "chunk_loop"
    /\ UNCHANGED <<mode, full_text, main_limit, sub_limit, columns, df,
                   main_chunks, chunk_id, chunk_text, subchunks, sub_id,
                   sub_text, sentences, sent_id, out>>
    /\ UNCHANGED <<fnVars, insVars, searchVars>>

\* from_raw_text: for chunk_id, chunk_text in enumerate(main_chunks, 1)
NextChunkRaw ==
    /\ gen_pc = "chunk_loop"
    /\ mode = "raw"
    /\ chunk_id < Len(main_chunks)
    /\ chunk_id' = chunk_id + 1
    /\ chunk_text' = main_chunks[chunk_id']
    /\ subchunks' = split_by_tokens(chunk_text', sub_limit)
    /\ sub_id' = 0
    /\ gen_pc' = "sub_loop"
    /\ UNCHANGED <<mode, full_text, main_limit, sub_limit, columns, df,
                   main_chunks, sub_text, sentences, sent_id, out>>
    /\ UNCHANGED <<fnVars, insVars, searchVars>>

\* from_raw_text: main_chunks is exhausted
EndChunksRaw ==
    /\ gen_pc = "chunk_loop"
    /\ mode = "raw"
    /\ chunk_id = Len(main_chunks)
    /\ gen_pc' = "done"
    /\ UNCHANGED <<mode, full_text, main_limit, sub_limit, columns, df,
                   main_chunks, chunk_id, chunk_text, subchunks, sub_id,
                   sub_text, sentences, sent_id, out>>
    /\ UNCHANGED <<fnVars, insVars, searchVars>>

\* from_chunk_csv: df.iterrows() produces a row whose chunk_id converts
NextRowCsv ==
    /\ gen_pc = "chunk_loop"
    /\ mode = "csv"
    /\ Len(df) < MaxDfRows
    /\ \E idc \in IdCells, tc \in TextCells :
          /\ ~py_int_raises(idc)
          /\ df' = Append(df, [chunk_id |-> idc, chunk_text |-> tc])
          /\ chunk_id' = py_int(idc)
          /\ chunk_text' = py_str_or_empty(tc)
    /\ subchunks' = split_by_tokens(chunk_text', sub_limit)
    /\ sub_id' = 0
    /\ gen_pc' = "sub_loop"
    /\ UNCHANGED <<mode, full_text, main_limit, sub_limit, columns,
                   main_chunks, sub_text, sentences, sent_id, out>>
    /\ UNCHANGED <<fnVars, insVars, searchVars>>

\* from_chunk_csv: df.iterrows() produces a row whose chunk_id makes
\* int() raise ValueError
NextRowCsvRaise ==
    /\ gen_pc = "chunk_loop"
    /\ mode = "csv"
    /\ Len(df) < MaxDfRows
    /\ \E idc \in IdCells, tc \in TextCells :
          /\ py_int_raises(idc)
          /\ df' = Append(df, [chunk_id |-> idc, chunk_text |-> tc])
    /\ gen_pc' = "error"
    /\ UNCHANGED <<mode, full_text, main_limit, sub_limit, columns,
                   main_chunks, chunk_id, chunk_text, subchunks, sub_id,
                   sub_text, sentences, sent_id, out>>
    /\ UNCHANGED <<fnVars, insVars, searchVars>>

\* from_chunk_csv: df.iterrows() is exhausted
EndRowsCsv ==
    /\ gen_pc = "chunk_loop"
    /\ mode = "csv"
    /\ gen_pc' = "done"
    /\ UNCHANGED <<mode, full_text, main_limit, sub_limit, columns, df,
                   main_chunks, chunk_id, chunk_text, subchunks, sub_id,
                   sub_text, sentences, sent_id, out>>
    /\ UNCHANGED <<fnVars, insVars, searchVars>>

\* for sub_id, sub_text in enumerate(subchunks, start=1)
NextSub ==
    /\ gen_pc = "sub_loop"
    /\ sub_id < Len(subchunks)
    /\ sub_id' = sub_id + 1
    /\ sub_text' = subchunks[sub_id']
    /\ sentences' = sentences_or_fallback(sub_text')
    /\ sent_id' = 0
    /\ gen_pc' = "sent_loop"
    /\ UNCHANGED <<mode, full_text, main_limit, sub_limit, columns, df,
                   main_chunks, chunk_id, chunk_text, subchunks, out>>
    /\ UNCHANGED <<fnVars, insVars, searchVars>>

\* subchunks is exhausted
EndSubs ==
    /\ gen_pc = "sub_loop"
    /\ sub_id = Len(subchunks)
    /\ gen_pc' = "chunk_loop"
    /\ UNCHANGED <<mode, full_text, main_limit, sub_limit, columns, df,
                   main_chunks, chunk_id, chunk_text, subchunks, sub_id,
                   sub_text, sentences, sent_id, out>>
    /\ UNCHANGED <<fnVars, insVars, searchVars>>

\* for sent_id, sent_text in enumerate(sentences, start=1): yield the row
Yield ==
    /\ gen_pc = "sent_loop"
    /\ sent_id < Len(sentences)
    /\ sent_id' = sent_id + 1
    /\ out' = Append(out, Row(chunk_id, chunk_text, sub_id, sub_text,
                              sent_id', sentences[sent_id']))
    /\ UNCHANGED <<mode, full_text, main_limit, sub_limit, columns, df,
                   gen_pc, main_chunks, chunk_id, chunk_text, subchunks,
                   sub_id, sub_text, sentences>>
    /\ UNCHANGED <<fnVars, insVars, searchVars>>

\* sentences is exhausted
EndSents ==
    /\ gen_pc = "sent_loop"
    /\ sent_id = Len(sentences)
    /\ gen_pc' = "sub_loop"
    /\ UNCHANGED <<mode, full_text, main_limit, sub_limit, columns, df,
                   main_chunks, chunk_id, chunk_text, subchunks, sub_id,
                   sub_text, sentences, sent_id, out>>
    /\ UNCHANGED <<fnVars, insVars, searchVars>>

NextGen ==
    \/ StartRaw \/ StartCsvRaise \/ StartCsv
    \/ NextChunkRaw \/ EndChunksRaw
    \/ NextRowCsv \/ NextRowCsvRaise \/ EndRowsCsv
    \/ NextSub \/ EndSubs
    \/ Yield \/ EndSents

SpecGen == InitGen /\ [][NextGen]_vars

--------------------------------------------------------------------------
\* insert_csv of run_all.py (the loop of insert_csv.py is the same, with
\* batch_size the module constant BATCH_SIZE).

\* a field the reader fills with None: the row is shorter than the header
None == <<"None">>

\* str(x)
py_str(x) == IF x = None THEN <<"N", "o", "n", "e">> ELSE x

\* to_int(x, name) raises ValueError
to_int_raises(x) == ~IsIntLiteral(py_str(x))

\* to_int(x, name): int(str(x).strip())
to_int(x) == DecimalValue(strip(py_str(x)))

\* x or ""
or_empty(x) == IF x = None THEN <<>> ELSE x

RECURSIVE ZeroPad(_, _)
ZeroPad(ds, width) ==
    IF Len(ds) >= width THEN ds ELSE ZeroPad(<<"0">> \o ds, width)

RECURSIVE Decimal(_)
\* str(n) for n >= 0
Decimal(n) ==
    IF n < 10 THEN <<Digits[n + 1]>>
    ELSE Decimal(n \div 10) \o <<Digits[(n % 10) + 1]>>

\* the width of the :06d fields of the uuid
UuidFieldWidth == 6

\* f"{n:06d}" for n >= 0
Format06d(n) == ZeroPad(Decimal(n), UuidFieldWidth)

required ==
    {"chunk_id", "chunk_text", "subchunk_id", "subchunk_text",
     "sentence_id", "sentence_text"}

\* {"properties": props, "uuid": uuid} for one row
record_of(row) ==
    [properties |->
        [chunk_id |-> to_int(row.chunk_id),
         subchunk_id |-> to_int(row.subchunk_id),
         sentence_id |-> to_int(row.sentence_id),
         chunk_text |-> or_empty(row.chunk_text),
         subchunk_text |-> or_empty(row.subchunk_text),
         sentence_text |-> or_empty(row.sentence_text)],
     uuid |-> Format06d(to_int(row.chunk_id)) \o <<"-">>
              \o Format06d(to_int(row.subchunk_id)) \o <<"-">>
              \o Format06d(to_int(row.sentence_id))]

\* the flush test with > for >=
should_flush_gt(b, size) == Len(b) > size

\* if len(buf) >= batch_size
should_flush(b, size) == Len(b) >= size

\* the data rows a CSV file may hold
CsvRows ==
    [chunk_id : {<<"1">>, <<SP, "2">>, <<"x">>},
     chunk_text : {<<"a">>},
     subchunk_id : {<<"1">>},
     subchunk_text : {<<"a">>},
     sentence_id : {<<"1">>, None},
     sentence_text : {<<"a">>, None}]

InitIns ==
    /\ IdleFn
    /\ IdleGen
    /\ IdleSearch
    /\ csv_exists \in BOOLEAN
    /\ collection_exists \in BOOLEAN
    /\ fieldnames \in {required, required \ {"sentence_text"}}
    /\ batch_size \in 0..MaxBatch
    /\ csv_rows = <<>>
    /\ ins_pc = "start"
    /\ buf = <<>>
    /\ total = 0
    /\ calls = <<>>
    /\ printed = <<>>

\* the CSV file or the collection is not there, or a required column is
\* missing from the header: sys.exit(1)
InsertExit ==
    /\ ins_pc = "start"
    /\ \/ ~csv_exists
       \/ ~collection_exists
       \/ \E col \in required : col \notin fieldnames
    /\ ins_pc' = "exit"
    /\ UNCHANGED <<csv_exists, collection_exists, fieldnames, batch_size,
                   csv_rows, buf, total, calls, printed>>
    /\ UNCHANGED <<fnVars, genVars, searchVars>>

\* all checks pass: buf = [], total = 0, enter the loop over the reader
InsertBegin ==
    /\ ins_pc = "start"
    /\ csv_exists
    /\ collection_exists
    /\ \A col \in required : col \in fieldnames
    /\ buf' = <<>>
    /\ total' = 0
    /\ ins_pc' = "loop"
    /\ UNCHANGED <<csv_exists, collection_exists, fieldnames, batch_size,
                   csv_rows, calls, printed>>
    /\ UNCHANGED <<fnVars, genVars, searchVars>>

\* one iteration of `for row in reader` on a row whose ids convert
InsertRow ==
    /\ ins_pc = "loop"
    /\ Len(csv_rows) < MaxCsvRows
    /\ \E row \in CsvRows :
          /\ ~to_int_raises(row.chunk_id)
          /\ ~to_int_raises(row.subchunk_id)
          /\ ~to_int_raises(row.sentence_id)
          /\ csv_rows' = Append(csv_rows, row)
          /\ total' = total + 1
          /\ LET appended == Append(buf, record_of(row))
             IN IF should_flush(appended, batch_size)
                THEN /\ calls' = Append(calls, appended)
                     /\ printed' = Append(printed, total')
                     /\ buf' = <<>>
                ELSE /\ buf' = appended
                     /\ UNCHANGED <<calls, printed>>
    /\ UNCHANGED <<csv_exists, collection_exists, fieldnames, batch_size,
                   ins_pc>>
    /\ UNCHANGED <<fnVars, genVars, searchVars>>

\* one iteration on a row with a non-integer id: to_int raises ValueError
InsertRowRaise ==
    /\ ins_pc = "loop"
    /\ Len(csv_rows) < MaxCsvRows
    /\ \E row \in CsvRows :
          /\ \/ to_int_raises(row.chunk_id)
             \/ to_int_raises(row.subchunk_id)
             \/ to_int_raises(row.sentence_id)
          /\ csv_rows' = Append(csv_rows, row)
    /\ ins_pc' = "error"
    /\ UNCHANGED <<csv_exists, collection_exists, fieldnames, batch_size,
                   buf, total, calls, printed>>
    /\ UNCHANGED <<fnVars, genVars, searchVars>>

\* the reader is exhausted: flush what is left in buf, print the total
InsertFinish ==
    /\ ins_pc = "loop"
    /\ IF buf # <<>>
       THEN /\ calls' = Append(calls, buf)
            /\ printed' = printed \o <<total, total>>
       ELSE /\ calls' = calls
            /\ printed' = Append(printed, total)
    /\ ins_pc' = "done"
    /\ UNCHANGED <<csv_exists, collection_exists, fieldnames, batch_size,
                   csv_rows, buf, total>>
    /\ UNCHANGED <<fnVars, genVars, searchVars>>

NextIns ==
    \/ InsertExit \/ InsertBegin
    \/ InsertRow \/ InsertRowRaise
    \/ InsertFinish

SpecIns == InitIns /\ [][NextIns]_vars

--------------------------------------------------------------------------
\* The script search.py: hybrid, then bm25, then nearText, inside
\* try ... finally: client.close().

\* the longest preview print_results prints of a sentence_text
PreviewLimit == 200

\* an object of a query result: obj.properties may be None, and
\* sentence_text may be empty or whitespace
SearchObjects ==
    {[has_properties |-> FALSE, sentence_text |-> <<>>]}
        \cup {[has_properties |-> TRUE, sentence_text |-> t] :
                 t \in {<<>>, <<NL>>, <<"a">>}}

\* what a query call may do: return a result with objects, raise
\* WeaviateQueryError, or raise another exception
QueryOutcomes ==
    {[kind |-> "objects", objects |-> objs] :
        objs \in UNION {[1..n -> SearchObjects] : n \in 0..MaxObjects}}
        \cup {[kind |-> "query_error", objects |-> <<>>],
              [kind |-> "other_error", objects |-> <<>>]}

\* (p.get("sentence_text") or "").strip() of (obj.properties or {})
sent_txt(obj) ==
    IF obj.has_properties THEN strip(obj.sentence_text) ELSE <<>>

\* p["sentence_text"].replace("\n", " ")[:200]
preview(t) ==
    Slice([k \in 1..Len(t) |-> IF t[k] = NL THEN SP ELSE t[k]],
          0, PreviewLimit)

\* print_results(res): the previews of the objects whose sentence_text is
\* not empty after stripping, in order
print_results(objs) ==
    LET filtered == SelectSeq(objs, LAMBDA obj : sent_txt(obj) # <<>>)
    IN [k \in 1..Len(filtered) |-> preview(filtered[k].sentence_text)]

\* the early exit decided on the hits left after filtering
found_objects_filtered(objs) == Len(print_results(objs)) > 0

\* len(getattr(res, "objects", []) or []) > 0
found_objects(objs) == Len(objs) > 0

InitSearch ==
    /\ IdleFn
    /\ IdleGen
    /\ IdleIns
    /\ sr_pc = "get"
    /\ queries = <<>>
    /\ shown = <<>>
    /\ sr_exit = "none"
    /\ client_closed = FALSE

\* coll = client.collections.get("PaliText")
GetCollection ==
    /\ sr_pc = "get"
    /\ sr_pc' = "hybrid"
    /\ UNCHANGED <<queries, shown, sr_exit, client_closed>>
    /\ UNCHANGED <<fnVars, genVars, insVars>>

\* client.collections.get raises
GetCollectionRaise ==
    /\ sr_pc = "get"
    /\ sr_pc' = "finally"
    /\ sr_exit' = "exception"
    /\ UNCHANGED <<queries, shown, client_closed>>
    /\ UNCHANGED <<fnVars, genVars, insVars>>

\* a try block that falls back: the query, print_results, raise SystemExit
\* when objects came back; except WeaviateQueryError: go on
TryWithFallback(strategy, o, next) ==
    /\ queries' = Append(queries, [strategy |-> strategy, outcome |-> o])
    /\ CASE o.kind = "objects" ->
              /\ shown' = Append(shown, print_results(o.objects))
              /\ IF found_objects(o.objects)
                 THEN sr_pc' = "finally" /\ sr_exit' = "SystemExit"
                 ELSE sr_pc' = next /\ sr_exit' = sr_exit
         [] o.kind = "query_error" ->
              /\ sr_pc' = next
              /\ UNCHANGED <<shown, sr_exit>>
         [] o.kind = "other_error" ->
              /\ sr_pc' = "finally"
              /\ sr_exit' = "exception"
              /\ UNCHANGED shown
    /\ UNCHANGED client_closed

\* 1) coll.query.hybrid
Hybrid ==
    /\ sr_pc = "hybrid"
    /\ \E o \in QueryOutcomes : TryWithFallback("hybrid", o, "bm25")
    /\ UNCHANGED <<fnVars, genVars, insVars>>

\* 2) coll.query.bm25
Bm25 ==
    /\ sr_pc = "bm25"
    /\ \E o \in QueryOutcomes : TryWithFallback("bm25", o, "near_text")
    /\ UNCHANGED <<fnVars, genVars, insVars>>

\* 3) coll.query.near_text: print_results, or the message of the except
NearText ==
    /\ sr_pc = "near_text"
    /\ \E o \in QueryOutcomes :
          /\ queries' = Append(queries,
                               [strategy |-> "nearText", outcome |-> o])
          /\ shown' = IF o.kind = "objects"
                      THEN Append(shown, print_results(o.objects))
                      ELSE shown
          /\ sr_exit' = IF o.kind = "other_error" THEN "exception"
                        ELSE "normal"
    /\ sr_pc' = "finally"
    /\ UNCHANGED client_closed
    /\ UNCHANGED <<fnVars, genVars, insVars>>

\* finally: client.close()
Close ==
    /\ sr_pc = "finally"
    /\ client_closed' = TRUE
    /\ sr_pc' = "closed"
    /\ UNCHANGED <<queries, shown, sr_exit>>
    /\ UNCHANGED <<fnVars, genVars, insVars>>

NextSearch ==
    \/ GetCollection \/ GetCollectionRaise
    \/ Hybrid \/ Bm25 \/ NearText
    \/ Close

\* the script is one sequential thread: a step that can be taken is taken
SpecSearch == InitSearch /\ [][NextSearch]_vars /\ WF_vars(NextSearch)

--------------------------------------------------------------------------
\* Notions the properties are stated in, defined apart from the code.

CeilDiv(n, d) == (n + d - 1) \div d

RECURSIVE Flatten(_)
\* the concatenation of a sequence of sequences
Flatten(ss) == IF ss = <<>> THEN <<>> ELSE Head(ss) \o Flatten(Tail(ss))

\* slice i (1-based) of the reference partition of toks into runs of lim
RefSlice(toks, i, lim) ==
    SubSeq(toks, (i - 1) * lim + 1, Min(i * lim, Len(toks)))

\* t without its whitespace characters
NoSpace(t) == SelectSeq(t, LAMBDA c : ~IsSpace(c))

NonSpaceAt(t) == {i \in 1..Len(t) : ~IsSpace(t[i])}

\* t without leading and trailing whitespace
Trimmed(t) ==
    IF NonSpaceAt(t) = {} THEN <<>>
    ELSE LET lo == CHOOSE i \in NonSpaceAt(t) : \A j \in NonSpaceAt(t) : i <= j
             hi == CHOOSE i \in NonSpaceAt(t) : \A j \in NonSpaceAt(t) : j <= i
         IN SubSeq(t, lo, hi)

\* t with every run of spaces and tabs replaced by one space
OneSpacePerRun(t) ==
    LET idx == [i \in 1..Len(t) |-> i]
        first == SelectSeq(idx, LAMBDA i :
                     \/ t[i] \notin {SP, TAB}
                     \/ i = 1
                     \/ t[i - 1] \notin {SP, TAB})
    IN [k \in 1..Len(first) |->
           IF t[first[k]] \in {SP, TAB} THEN SP ELSE t[first[k]]]

\* t holds a sentence boundary: a terminator followed by whitespace, or two
\* newlines in a row
HasBoundary(t) ==
    \E i \in 1..(Len(t) - 1) :
        \/ t[i] \in Terminators /\ IsSpace(t[i + 1])
        \/ t[i] = NL /\ t[i + 1] = NL

--------------------------------------------------------------------------
\* Properties of split_by_tokens.

\* C1: for a positive limit, split_by_tokens returns the reference
\* partition of toks = enc(text): ceil(len(toks)/limit) slices, slice i the
\* decoding of toks[(i-1)*limit .. min(i*limit, len) - 1], every slice but
\* the last of exactly limit tokens, the last of 1..limit tokens, the token
\* slices concatenating to toks, and no slice at all for the empty text.
C1_ReferencePartition ==
    (fn_pc = "split_returned" /\ limit > 0) =>
        LET toks == enc(text)
        IN /\ Len(slices) = CeilDiv(Len(toks), limit)
           /\ Len(parts) = Len(slices)
           /\ \A i \in 1..Len(slices) :
                 /\ parts[i] = RefSlice(toks, i, limit)
                 /\ slices[i] = dec(RefSlice(toks, i, limit))
           /\ \A i \in 1..(Len(parts) - 1) : Len(parts[i]) = limit
           /\ parts # <<>> => Len(parts[Len(parts)]) \in 1..limit
           /\ Flatten(parts) = toks
           /\ text = <<>> => slices = <<>>

\* a call that returned several slices, the last one short
C1_Witness ==
    /\ fn_pc = "split_returned"
    /\ limit > 1
    /\ Len(slices) >= 2
    /\ Len(parts[Len(parts)]) < limit

\* C6: split_by_tokens with a limit <= 0 fails with an error and returns
\* no slices, whatever the text.
C6_NonPositiveLimitFails ==
    (fn_pc # "ready" /\ limit <= 0) =>
        (fn_pc = "split_raised" /\ slices = <<>>)

--------------------------------------------------------------------------
\* Properties of split_into_sentences.

\* C8 as stated: a text without a sentence boundary gives exactly one span,
\* the whole trimmed text, or no span when the trimmed text is empty; and
\* the result is empty exactly when the text is empty after trimming.
C8_WholeTrimmedText ==
    fn_pc = "sent_returned" =>
        /\ ~HasBoundary(text) =>
              spans = IF Trimmed(text) = <<>> THEN <<>>
                      ELSE <<Trimmed(text)>>
        /\ spans = <<>> <=> Trimmed(text) = <<>>

\* C8 amended: a text without a sentence boundary gives exactly one span,
\* the trimmed text with every run of spaces and tabs replaced by a single
\* space, or no span when the trimmed text is empty; and the result is
\* empty exactly when the text is empty after trimming.
C8_WholeNormalizedText ==
    fn_pc = "sent_returned" =>
        /\ ~HasBoundary(text) =>
              spans = IF Trimmed(text) = <<>> THEN <<>>
                      ELSE <<OneSpacePerRun(Trimmed(text))>>
        /\ spans = <<>> <=> Trimmed(text) = <<>>

\* a boundary-free text whose single span differs from the trimmed text
C8_Witness ==
    /\ fn_pc = "sent_returned"
    /\ ~HasBoundary(text)
    /\ Len(spans) = 1
    /\ spans[1] # Trimmed(text)

\* C9: split_into_sentences loses nothing but whitespace: every span is
\* non-empty with no whitespace at either end, the spans concatenated and
\* stripped of whitespace equal the text stripped of whitespace, and a
\* terminator followed by whitespace ends the span it lies in.
C9_OnlyWhitespaceLost ==
    fn_pc = "sent_returned" =>
        /\ \A k \in 1..Len(spans) :
              /\ spans[k] # <<>>
              /\ ~IsSpace(spans[k][1])
              /\ ~IsSpace(spans[k][Len(spans[k])])
        /\ NoSpace(Flatten(spans)) = NoSpace(text)
        /\ \A i \in 1..(Len(text) - 1) :
              (text[i] \in Terminators /\ IsSpace(text[i + 1])) =>
                  \E k \in 1..Len(spans) :
                      /\ Len(NoSpace(Flatten(SubSeq(spans, 1, k))))
                            = Len(NoSpace(SubSeq(text, 1, i)))
                      /\ spans[k][Len(spans[k])] = text[i]

\* a text split into three spans, once after a terminator and once at a
\* paragraph break that follows a letter
C9_Witness ==
    /\ fn_pc = "sent_returned"
    /\ Len(spans) >= 3
    /\ \E i \in 1..(Len(text) - 1) :
          text[i] \in Terminators /\ IsSpace(text[i + 1])
    /\ \E i \in 2..(Len(text) - 1) :
          text[i - 1] = "a" /\ text[i] = NL /\ text[i + 1] = NL

--------------------------------------------------------------------------
\* Properties of the rows from_raw_text and from_chunk_csv yield.

RowsOf(c, sb) ==
    {i \in 1..Len(out) : out[i].chunk_id = c /\ out[i].subchunk_id = sb}

\* within every (chunk_id, subchunk_id) pair the sentence ids are 1..k,
\* and within every chunk_id the subchunk ids are 1..m
DenseIds ==
    /\ \A i \in 1..Len(out) :
          LET ids == {out[j].sentence_id :
                         j \in RowsOf(out[i].chunk_id, out[i].subchunk_id)}
          IN ids = 1..Cardinality(ids)
    /\ \A i \in 1..Len(out) :
          LET ids == {out[j].subchunk_id :
                         j \in {j \in 1..Len(out) :
                                    out[j].chunk_id = out[i].chunk_id}}
          IN ids = 1..Cardinality(ids)

\* C2 as stated: every yielded row has chunk_id, subchunk_id and
\* sentence_id >= 1, in both modes, and the ids are dense.
C2_IdsPositiveAndDense ==
    /\ \A i \in 1..Len(out) :
          /\ out[i].chunk_id >= 1
          /\ out[i].subchunk_id >= 1
          /\ out[i].sentence_id >= 1
    /\ DenseIds

\* C2 amended: every yielded row has subchunk_id and sentence_id >= 1 and
\* the ids are dense; a row of from_raw_text has chunk_id >= 1, a row of
\* from_chunk_csv has the integer conversion of a supplied chunk_id,
\* whatever its sign.
C2_IdsDense ==
    /\ \A i \in 1..Len(out) :
          /\ out[i].subchunk_id >= 1
          /\ out[i].sentence_id >= 1
          /\ mode = "raw" => out[i].chunk_id >= 1
          /\ mode = "csv" =>
                \E j \in 1..Len(df) :
                    /\ ~py_int_raises(df[j].chunk_id)
                    /\ out[i].chunk_id = py_int(df[j].chunk_id)
    /\ DenseIds

\* from_chunk_csv has yielded rows of two data frame rows that carry the
\* same chunk_id, several subchunks among them
C2_Witness ==
    /\ mode = "csv"
    /\ Len(df) = 2
    /\ gen_pc = "done"
    /\ \E i, j \in 1..Len(out) :
          /\ i < j
          /\ out[i].chunk_id = out[j].chunk_id
          /\ out[i].chunk_text # out[j].chunk_text
          /\ out[i].subchunk_id = 2
          /\ out[j].subchunk_id = 1

Triple(r) == <<r.chunk_id, r.subchunk_id, r.sentence_id>>

LexLess(a, b) ==
    \/ a[1] < b[1]
    \/ a[1] = b[1] /\ a[2] < b[2]
    \/ a[1] = b[1] /\ a[2] = b[2] /\ a[3] < b[3]

\* C3: along the rows from_raw_text yields, (chunk_id, subchunk_id,
\* sentence_id) increases strictly in lexicographic order; so no triple is
\* yielded twice and the rows of one chunk_id are contiguous.
C3_StrictAncestryOrder ==
    mode = "raw" =>
        /\ \A i \in 1..(Len(out) - 1) :
              LexLess(Triple(out[i]), Triple(out[i + 1]))
        /\ \A i, j \in 1..Len(out) :
              i # j => Triple(out[i]) # Triple(out[j])
        /\ \A i, j, k \in 1..Len(out) :
              (i < j /\ j < k /\ out[i].chunk_id = out[k].chunk_id)
                  => out[j].chunk_id = out[i].chunk_id

\* from_raw_text has yielded two sentences of one subchunk, a second
\* subchunk and a second chunk
C3_Witness ==
    /\ mode = "raw"
    /\ \E i, j, k \in 1..Len(out) :
          /\ out[i].sentence_id = 2
          /\ out[j].subchunk_id = 2
          /\ out[k].chunk_id = 2

\* what a subchunk is to yield: its spans, or itself when it has none
ExpectedSentences(stext) ==
    IF split_into_sentences(stext) = <<>> THEN <<stext>>
    ELSE split_into_sentences(stext)

\* the chunk texts the generator has gone through, in order
ChunkTexts ==
    IF mode = "raw" THEN split_by_tokens(full_text, main_limit)
    ELSE [j \in 1..Len(df) |-> py_str_or_empty(df[j].chunk_text)]

\* the subchunk texts of all those chunks, in order
AllSubchunks ==
    Flatten([c \in 1..Len(ChunkTexts) |->
                 split_by_tokens(ChunkTexts[c], sub_limit)])

\* the rows that open a subchunk
FirstRows == SelectSeq(out, LAMBDA r : r.sentence_id = 1)

\* C4: a subchunk for which split_into_sentences returns nothing yields
\* exactly one row, with sentence_id 1 and the subchunk text verbatim;
\* every other subchunk yields exactly one row per span, in span order.
C4_OneRowPerSentence ==
    /\ \A i \in 1..Len(out) :
          LET r == out[i]
              expected == ExpectedSentences(r.subchunk_text)
          IN /\ r.sentence_id \in 1..Len(expected)
             /\ r.sentence_text = expected[r.sentence_id]
             /\ r.sentence_id > 1 =>
                   /\ out[i - 1].sentence_id = r.sentence_id - 1
                   /\ out[i - 1].subchunk_id = r.subchunk_id
                   /\ out[i - 1].subchunk_text = r.subchunk_text
                   /\ out[i - 1].chunk_id = r.chunk_id
                   /\ out[i - 1].chunk_text = r.chunk_text
             /\ (i < Len(out) /\ out[i + 1].sentence_id = 1)
                   => r.sentence_id = Len(expected)
             /\ (i = Len(out) /\ gen_pc # "sent_loop")
                   => r.sentence_id = Len(expected)
    /\ gen_pc = "done" =>
          [k \in 1..Len(FirstRows) |-> FirstRows[k].subchunk_text]
              = AllSubchunks

\* a finished run that yielded the single fallback row of a whitespace-only
\* subchunk and the two rows of a two-sentence subchunk
C4_Witness ==
    /\ gen_pc = "done"
    /\ \E i, j \in 1..Len(out) :
          /\ split_into_sentences(out[i].subchunk_text) = <<>>
          /\ out[i].sentence_text = out[i].subchunk_text
          /\ out[j].sentence_id = 2

\* C5 as stated: the sentence_text of every yielded row is non-empty after
\* trimming.
C5_NeverEmptyAfterTrimming ==
    \A i \in 1..Len(out) : Trimmed(out[i].sentence_text) # <<>>

\* C5 amended: the sentence_text of every yielded row is a non-empty
\* string; it is empty after trimming exactly when its subchunk text is
\* all whitespace, and then it is the subchunk text verbatim, in the only
\* row of that subchunk.
C5_EmptyOnlyAsFallback ==
    \A i \in 1..Len(out) :
        LET r == out[i]
        IN /\ r.sentence_text # <<>>
           /\ Trimmed(r.sentence_text) = <<>>
                 <=> Trimmed(r.subchunk_text) = <<>>
           /\ Trimmed(r.subchunk_text) = <<>> =>
                 /\ r.sentence_text = r.subchunk_text
                 /\ r.sentence_id = 1
                 /\ (i < Len(out) => out[i + 1].sentence_id = 1)

\* a whitespace-only subchunk between two subchunks with text
C5_Witness ==
    \E i \in 2..(Len(out) - 1) :
        /\ Trimmed(out[i].sentence_text) = <<>>
        /\ out[i].sentence_text # <<>>
        /\ Trimmed(out[i - 1].sentence_text) # <<>>
        /\ Trimmed(out[i + 1].sentence_text) # <<>>

\* the cell holds an integer: an int, a float without fraction, or a
\* string that is an integer literal
IsIntegerCell(x) ==
    \/ x.kind = "int"
    \/ x.kind = "float" /\ x.tenths % 10 = 0
    \/ x.kind = "str" /\ IsIntLiteral(x.s)

\* C7: from_chunk_csv fails before any row when the chunk_id or the
\* chunk_text column is missing, and fails at a data frame row whose
\* chunk_id is missing or no integer: no row is yielded with a chunk_id
\* coerced from a non-integer value.
C7_NonIntegerIdFails ==
    mode = "csv" =>
        /\ ("Chunk_ID" \notin columns \/ "chunk_text" \notin columns)
              => (gen_pc \in {"start", "error"} /\ out = <<>>)
        /\ \A j \in 1..Len(df) :
              ~IsIntegerCell(df[j].chunk_id) =>
                  (j = Len(df) /\ gen_pc = "error")

--------------------------------------------------------------------------
\* Properties of insert_csv.

\* the records of the data rows read so far
RecordsRead == [k \in 1..Len(csv_rows) |-> record_of(csv_rows[k])]

\* every row is passed to insert_many once and in file order, every batch
\* but the last holds batch_size records, the last 1..batch_size, none is
\* empty, and the last total printed is the number of data rows
BatchesInOrder ==
    /\ Flatten(calls) = SubSeq(RecordsRead, 1, Len(Flatten(calls)))
    /\ \A i \in 1..Len(calls) :
          /\ Len(calls[i]) \in 1..batch_size
          /\ (i < Len(calls) \/ ins_pc = "loop")
                => Len(calls[i]) = batch_size
    /\ ins_pc = "done" =>
          /\ Flatten(calls) = RecordsRead
          /\ printed[Len(printed)] = Len(csv_rows)

\* C10 as stated: for a CSV with the six columns and integer ids and a
\* batch size >= 1, every row is passed to insert_many once and in file
\* order, in batches of batch_size but for a last one of 1..batch_size,
\* never an empty one, the total reported is the number of rows, and the
\* buffer is empty after each flush.
C10_BufferEmptyAfterEachFlush ==
    (ins_pc \in {"loop", "done"} /\ batch_size >= 1) =>
        /\ BatchesInOrder
        /\ (calls # <<>> /\ Flatten(calls) = RecordsRead) => buf = <<>>

\* C10 amended: as stated, but the buffer is empty after each flush made
\* inside the loop, where it holds exactly the rows read since that flush;
\* the final flush of a partial batch does not clear it.
C10_BufferEmptyAfterLoopFlush ==
    (ins_pc \in {"loop", "done"} /\ batch_size >= 1) =>
        /\ BatchesInOrder
        /\ ins_pc = "loop" =>
              /\ Flatten(calls) \o buf = RecordsRead
              /\ Len(buf) < batch_size
        /\ ins_pc = "done" =>
              buf = IF Len(csv_rows) % batch_size = 0 THEN <<>>
                    ELSE calls[Len(calls)]

\* a finished insert of two full batches and a partial one
C10_Witness ==
    /\ ins_pc = "done"
    /\ batch_size = 2
    /\ Len(calls) = 3
    /\ Len(calls[3]) = 1
    /\ calls[1] # calls[2]

--------------------------------------------------------------------------
\* Properties of search.py.

StrategyOrder == <<"hybrid", "bm25", "nearText">>

\* the query raised a query error or returned no object
FellThrough(q) ==
    \/ q.outcome.kind = "query_error"
    \/ q.outcome.kind = "objects" /\ q.outcome.objects = <<>>

\* the queries issued are a prefix of hybrid, bm25, nearText; a later one
\* is issued only after every earlier one fell through, and is issued
\* whenever they all did; nothing follows a query that returned objects,
\* listed or not; the client is closed only after the last query
FallbackOrder ==
    /\ Len(queries) <= Len(StrategyOrder)
    /\ \A k \in 1..Len(queries) : queries[k].strategy = StrategyOrder[k]
    /\ \A k \in 2..Len(queries) :
          \A j \in 1..(k - 1) : FellThrough(queries[j])
    /\ (sr_pc \in {"finally", "closed"} /\ queries # <<>>
            /\ Len(queries) < Len(StrategyOrder))
          => ~FellThrough(queries[Len(queries)])
    /\ \A k \in 1..Len(queries) :
          (queries[k].outcome.kind = "objects"
              /\ Len(queries[k].outcome.objects) >= 1)
                 => k = Len(queries)
    /\ client_closed => sr_pc = "closed"

\* C11: search.py issues hybrid, then bm25, then nearText, a later query
\* exactly when every earlier one raised a query error or returned no
\* object, none after a query that returned an object even when every
\* object is filtered out of the listing; and on every path the client is
\* closed in the end.
C11_FallbackOrderThenClose == []FallbackOrder /\ <>client_closed

\* hybrid raised a query error, bm25 returned objects that were all
\* filtered out of the listing, nearText was not issued, the client is
\* closed
C11_Witness ==
    /\ client_closed
    /\ sr_exit = "SystemExit"
    /\ Len(queries) = 2
    /\ queries[1].outcome.kind = "query_error"
    /\ Len(queries[2].outcome.objects) = MaxObjects
    /\ shown = << <<>> >>

====
